---- MODULE Spec2Model ----
(***************************************************************************)
(* State-machine model of image_thumbnail_viewer.py: the thumbnail window  *)
(* (folder listing, thumbnails bound to indices of the sorted path list)   *)
(* and the modal ImageViewerDialog (index navigation, zoom_percent state   *)
(* machine, _apply_zoom render computation, drag panning, persisted zoom). *)
(*                                                                         *)
(* Spec follows the viewer sessions on the folder the program started on;  *)
(* MainSpec follows the main window (path field, folder dialog, remembered  *)
(* folder) with viewers opened and rejected.  The dialog is modal, so the   *)
(* two never interleave.                                                    *)
(*                                                                         *)
(* Encodings.  A file name is the sequence of its character codes, so that *)
(* sorting and suffix extraction are computed and not assumed.  A scale (a *)
(* Python float) is kept as the pair <<num, den>> of the division that     *)
(* produced it; truncations int(k * scale) are computed exactly and then   *)
(* corrected by the table DoubleShort of the cases where binary64          *)
(* arithmetic lands just below the exact product.  Indices are 0-based as  *)
(* in the source; sequences are 1-based, hence paths[index + 1].           *)
(***************************************************************************)
EXTENDS Integers, Sequences, FiniteSets, TLC

Max(a, b) == IF a >= b THEN a ELSE b
Min(a, b) == IF a <= b THEN a ELSE b

(* ------------------------------------------------------------------ *)
(* Program constants                                                    *)
(* ------------------------------------------------------------------ *)
ZOOM_MIN == 10
ZOOM_MAX == 500
ZOOM_STEP == 10

\* ".jpg" ".jpeg" ".png" ".gif" ".bmp" ".webp" ".ico" ".tiff" ".tif"
IMAGE_EXTENSIONS ==
  { <<46,106,112,103>>, <<46,106,112,101,103>>, <<46,112,110,103>>,
    <<46,103,105,102>>, <<46,98,109,112>>, <<46,119,101,98,112>>,
    <<46,105,99,111>>, <<46,116,105,102,102>>, <<46,116,105,102>> }

\* settings.value(SETTINGS_IMAGE_VIEW_ZOOM, 0, type=int): the default used
\* when the key is absent
ZoomDefault == 0

(* ------------------------------------------------------------------ *)
(* Bounds of the model                                                  *)
(* ------------------------------------------------------------------ *)
\* how far outside 0..len-1 a requested index may lie
IndexSlack == 1

\* pointer events (press, release, move) explored per dialog
MaxPointerEvents == 3

(* ------------------------------------------------------------------ *)
(* The environment: a file system, decodable bitmaps, viewport sizes    *)
(* ------------------------------------------------------------------ *)
\* QPixmap(str(path)) results
NullPixmap == [isNull |-> TRUE, w |-> 0, h |-> 0]
Pixmap(w, h) == [isNull |-> FALSE, w |-> w, h |-> h]

\* Directory entries: name, p.is_file(), and what decoding the file gives.
\* Names are chosen so that case-sensitive and case-folded path comparison
\* order them alike.
DirEntries(d) ==
  CASE d = "pics" ->
         { [name |-> <<99,46,103,105,102>>,  is_file |-> TRUE,       \* c.gif
            pix |-> Pixmap(300000, 250)],
           [name |-> <<97,46,112,110,103>>,  is_file |-> TRUE,       \* a.png
            pix |-> Pixmap(500, 250)],
           [name |-> <<110,46,116,120,116>>, is_file |-> TRUE,       \* n.txt
            pix |-> NullPixmap],
           [name |-> <<98,46,106,112,103>>,  is_file |-> TRUE,       \* b.jpg
            pix |-> Pixmap(500, 250)],
           [name |-> <<100,46,112,110,103>>, is_file |-> FALSE,      \* d.png/
            pix |-> NullPixmap] }
    [] d = "mixed" ->
         { [name |-> <<120,46,98,109,112>>,  is_file |-> TRUE,       \* x.bmp
            pix |-> NullPixmap],                                     \* corrupt
           [name |-> <<77,46,80,78,71>>,     is_file |-> TRUE,       \* M.PNG
            pix |-> Pixmap(500, 250)],
           [name |-> <<122,46,105,99,111>>,  is_file |-> TRUE,       \* z.ico
            pix |-> Pixmap(500, 250)],
           [name |-> <<46,112,110,103>>,     is_file |-> TRUE,       \* .png
            pix |-> Pixmap(500, 250)] }
    [] d = "empty" ->
         { [name |-> <<114,46,116,120,116>>, is_file |-> TRUE,       \* r.txt
            pix |-> NullPixmap] }
    [] d = "wide" ->
         { [name |-> <<119,46,116,105,102>>, is_file |-> TRUE,       \* w.tif
            pix |-> Pixmap(2100, 250)] }
    [] OTHER -> {}

\* the directories of the file system
Directories == {"pics", "mixed", "empty", "wide"}

\* Path.resolve(): "album" is a symbolic link to "pics"
Resolve(d) == IF d = "album" THEN "pics" ELSE d

\* Path.is_dir(): follows symbolic links
is_dir(d) == Resolve(d) \in Directories

\* every path the model names; "gone" and "C:" do not exist
KnownPaths == {"pics", "mixed", "empty", "wide", "album", "gone", "C:"}

\* str(path), as character codes
PathStr(d) ==
  CASE d = "pics"  -> <<112,105,99,115>>
    [] d = "mixed" -> <<109,105,120,101,100>>
    [] d = "empty" -> <<101,109,112,116,121>>
    [] d = "wide"  -> <<119,105,100,101>>
    [] d = "album" -> <<97,108,98,117,109>>
    [] d = "gone"  -> <<103,111,110,101>>
    [] d = "C:"    -> <<67,58,92>>
    [] OTHER       -> <<63>>

\* Path(path_str); "?" stands for any path the model does not name
PathFromStr(path_str) ==
  IF \E d \in KnownPaths : PathStr(d) = path_str
    THEN CHOOSE d \in KnownPaths : PathStr(d) = path_str
    ELSE "?"

\* texts submitted in the path field: "pics", " mixed " between blanks,
\* "album", "gone", "n.txt" (no such path), the empty text and a blank
TypedTexts ==
  << <<112,105,99,115>>, <<32,109,105,120,101,100,32,32>>,
     <<97,108,98,117,109>>, <<103,111,110,101>>,
     <<110,46,116,120,116>>, << >>, <<32>> >>

\* results of QFileDialog.getExistingDirectory: cancelled (""), or a
\* directory, symbolic links unresolved
DialogResults ==
  << << >>, <<97,108,98,117,109>>, <<101,109,112,116,121>>,
     <<109,105,120,101,100>> >>

\* QStandardPaths.writableLocation(DesktopLocation): none, or "empty"
DesktopLocations == { << >>, <<101,109,112,116,121>> }

\* contents of the settings key "lastFolder" when the program starts:
\* << >> when the key was never written, else <<text>>
StoredFolderValues ==
  { << >>, << <<103,111,110,101>> >>, << <<112,105,99,115>> >>,
    << <<109,105,120,101,100>> >> }

\* sizes the scroll area's viewport takes, <<width, height>>
Viewports == { <<1000, 500>>, <<2600, 1300>> }

\* event.angleDelta().y() of the wheel events delivered: one and two notches
\* of 120 forward, one backward, and a horizontal-only event
WheelDeltas == { -120, 0, 120, 240 }

\* pointer positions delivered with mouse events, <<x, y>>
Points == { <<0, 0>>, <<100, 50>> }

\* the positions explored while the viewer shows folder d: the pointer is
\* used in the folder whose files all decode
PointsIn(d) == IF d = "pics" THEN Points ELSE {}

\* contents of the settings key "imageViewZoom" when the program starts:
\* << >> when the key was never written, <<v>> when it holds v
StoredZoomValues == { << >>, <<-2>>, <<3>>, <<640>> }

\* Path(dir) / name
PathOf(d, n) == [dir |-> d, name |-> n]

\* QPixmap(str(path))
QPixmapOf(path) ==
  LET es == { e \in DirEntries(Resolve(path.dir)) :
                e.name = path.name /\ e.is_file }
  IN  IF es = {} THEN NullPixmap ELSE (CHOOSE e \in es : TRUE).pix

(* ------------------------------------------------------------------ *)
(* pathlib: suffix, lower(), ordering                                   *)
(* ------------------------------------------------------------------ *)
Dot == 46

\* str.lower() on ASCII codes
LowerChar(c) == IF c >= 65 /\ c <= 90 THEN c + 32 ELSE c
Lower(s) == [i \in 1..Len(s) |-> LowerChar(s[i])]

\* PurePath.suffix: from the last dot of the name, unless that dot is the
\* first or the last character
Suffix(n) ==
  LET dots == { i \in 1..Len(n) : n[i] = Dot }
  IN  IF dots = {} THEN << >>
      ELSE LET i == CHOOSE k \in dots : \A j \in dots : j <= k
           IN  IF i > 1 /\ i < Len(n) THEN SubSeq(n, i, Len(n)) ELSE << >>

RECURSIVE SeqLess(_, _)
\* lexicographic order of two names
SeqLess(s, t) ==
  IF t = << >> THEN FALSE
  ELSE IF s = << >> THEN TRUE
  ELSE IF s[1] # t[1] THEN s[1] < t[1]
  ELSE SeqLess(Tail(s), Tail(t))

\* Path.__lt__ for paths of one folder
PathLess(p, q) == SeqLess(p.name, q.name)

RECURSIVE SortedSeq(_)
\* sorted(images)
SortedSeq(S) ==
  IF S = {} THEN << >>
  ELSE LET m == CHOOSE x \in S : \A y \in S \ {x} : PathLess(x, y)
       IN  <<m>> \o SortedSeq(S \ {m})

\* variant: directory entries are not tested with is_file()
get_image_files_any_entry(d) ==
  IF ~is_dir(d) THEN {}
  ELSE { PathOf(d, e.name) : e \in
           { x \in DirEntries(Resolve(d)) :
               Lower(Suffix(x.name)) \in IMAGE_EXTENSIONS } }

\* get_image_files(folder), an unordered listing
get_image_files(d) ==
  IF ~is_dir(d) THEN {}
  ELSE { PathOf(d, e.name) : e \in
           { x \in DirEntries(Resolve(d)) :
               x.is_file /\ Lower(Suffix(x.name)) \in IMAGE_EXTENSIONS } }

(* ------------------------------------------------------------------ *)
(* Float arithmetic of the render computation                           *)
(* ------------------------------------------------------------------ *)
\* Triples <<k, num, den>> for which the binary64 product k * (num / den)
\* is just below the exact value, so that int() of it is one less than the
\* exact floor.  Enumerated for k an image dimension or 100, and num / den
\* either p / 100.0 (p in 1..1199) or a viewport extent over an image
\* extent of the environment above (none of the latter occurs).
DoubleShort ==
  { <<100,29,100>>, <<100,57,100>>, <<100,58,100>>, <<100,113,100>>,
    <<100,114,100>>, <<100,115,100>>, <<100,116,100>>, <<100,201,100>>,
    <<100,203,100>>, <<100,205,100>>, <<100,207,100>>, <<100,226,100>>,
    <<100,228,100>>, <<100,230,100>>, <<100,232,100>>, <<100,251,100>>,
    <<100,253,100>>, <<100,255,100>>, <<100,402,100>>, <<100,406,100>>,
    <<100,410,100>>, <<100,414,100>>, <<100,427,100>>, <<100,431,100>>,
    <<100,435,100>>, <<100,439,100>>, <<100,452,100>>, <<100,456,100>>,
    <<100,460,100>>, <<100,464,100>>, <<100,477,100>>, <<100,481,100>>,
    <<100,485,100>>, <<100,489,100>>, <<100,502,100>>, <<100,506,100>>,
    <<100,510,100>>, <<100,803,100>>, <<100,804,100>>, <<100,812,100>>,
    <<100,820,100>>, <<100,828,100>>, <<100,829,100>>, <<100,837,100>>,
    <<100,845,100>>, <<100,853,100>>, <<100,854,100>>, <<100,862,100>>,
    <<100,870,100>>, <<100,878,100>>, <<100,879,100>>, <<100,887,100>>,
    <<100,895,100>>, <<100,903,100>>, <<100,904,100>>, <<100,912,100>>,
    <<100,920,100>>, <<100,928,100>>, <<100,929,100>>, <<100,937,100>>,
    <<100,945,100>>, <<100,953,100>>, <<100,954,100>>, <<100,962,100>>,
    <<100,970,100>>, <<100,978,100>>, <<100,979,100>>, <<100,987,100>>,
    <<100,995,100>>, <<100,1003,100>>, <<100,1004,100>>, <<100,1012,100>>,
    <<100,1020,100>>, <<250,402,100>>, <<250,406,100>>, <<250,804,100>>,
    <<250,812,100>>, <<500,201,100>>, <<500,203,100>>, <<500,402,100>>,
    <<500,406,100>>, <<500,803,100>>, <<500,804,100>>, <<500,811,100>>,
    <<500,812,100>>, <<500,819,100>>, <<300000,41,100>>, <<300000,57,100>>,
    <<300000,69,100>>, <<300000,82,100>>, <<300000,113,100>>,
    <<300000,114,100>>, <<300000,138,100>>, <<300000,139,100>>,
    <<300000,163,100>>, <<300000,164,100>>, <<300000,201,100>>,
    <<300000,203,100>>, <<300000,226,100>>, <<300000,228,100>>,
    <<300000,251,100>>, <<300000,253,100>>, <<300000,276,100>>,
    <<300000,278,100>>, <<300000,301,100>>, <<300000,303,100>>,
    <<300000,326,100>>, <<300000,328,100>>, <<300000,402,100>>,
    <<300000,406,100>>, <<300000,427,100>>, <<300000,431,100>>,
    <<300000,452,100>>, <<300000,456,100>>, <<300000,477,100>>,
    <<300000,481,100>>, <<300000,502,100>>, <<300000,506,100>>,
    <<300000,527,100>>, <<300000,531,100>>, <<300000,552,100>>,
    <<300000,556,100>>, <<300000,577,100>>, <<300000,581,100>>,
    <<300000,602,100>>, <<300000,606,100>>, <<300000,627,100>>,
    <<300000,631,100>>, <<300000,652,100>>, <<300000,656,100>>,
    <<300000,677,100>>, <<300000,681,100>>, <<300000,804,100>>,
    <<300000,812,100>>, <<300000,829,100>>, <<300000,837,100>>,
    <<300000,854,100>>, <<300000,862,100>>, <<300000,879,100>>,
    <<300000,887,100>>, <<300000,904,100>>, <<300000,912,100>>,
    <<300000,929,100>>, <<300000,937,100>>, <<300000,954,100>>,
    <<300000,962,100>>, <<300000,979,100>>, <<300000,987,100>>,
    <<300000,1004,100>>, <<300000,1012,100>>, <<300000,1029,100>>,
    <<300000,1037,100>>, <<300000,1054,100>>, <<300000,1062,100>>,
    <<300000,1079,100>>, <<300000,1087,100>>, <<300000,1104,100>>,
    <<300000,1112,100>>, <<300000,1129,100>>, <<300000,1137,100>>,
    <<300000,1154,100>>, <<300000,1162,100>>, <<300000,1179,100>>,
    <<300000,1187,100>> }
\* int(k * scale) for a scale num / den held as <<num, den>>
IntOfProduct(k, scale) ==
  ((k * scale[1]) \div scale[2])
    - (IF <<k, scale[1], scale[2]>> \in DoubleShort THEN 1 ELSE 0)

(* ------------------------------------------------------------------ *)
(* Settings store                                                       *)
(* ------------------------------------------------------------------ *)
\* max(ZOOM_MIN, min(ZOOM_MAX, v))
ClampZoom(v) == Max(ZOOM_MIN, Min(ZOOM_MAX, v))

\* load_image_view_zoom(): store is << >> when the key is absent, <<v>> else
load_image_view_zoom(store) ==
  LET v == IF store = << >> THEN ZoomDefault ELSE store[1]
  IN  IF v = 0 THEN 0 ELSE ClampZoom(v)

\* variant: the value is clamped like a percentage before it is written
save_image_view_zoom_clamped(percent) == <<ClampZoom(percent)>>

\* save_image_view_zoom(percent)
save_image_view_zoom(percent) == <<percent>>

\* str.strip(): blanks and tabs removed at both ends
IsSpace(c) == c = 32 \/ c = 9

RECURSIVE LStrip(_)
LStrip(t) ==
  IF t # << >> /\ IsSpace(t[1]) THEN LStrip(Tail(t)) ELSE t

RECURSIVE RStrip(_)
RStrip(t) ==
  IF t # << >> /\ IsSpace(t[Len(t)])
    THEN RStrip(SubSeq(t, 1, Len(t) - 1))
    ELSE t

Strip(t) == RStrip(LStrip(t))

\* no Path: the None of load_last_folder()
NoFolder == ""

\* load_last_folder(): the stored folder if it is a directory, else None
load_last_folder(store) ==
  LET path_str == IF store = << >> THEN << >> ELSE store[1]
  IN  IF path_str = << >> THEN NoFolder
      ELSE LET q == PathFromStr(path_str)
           IN  IF is_dir(q) THEN q ELSE NoFolder

\* save_last_folder(folder)
save_last_folder(d) == << PathStr(Resolve(d)) >>

\* get_default_folder(): the desktop if there is one, else "C:\"
get_default_folder(desktop) ==
  IF desktop # << >> /\ is_dir(PathFromStr(desktop))
    THEN PathFromStr(desktop)
    ELSE "C:"

(* ------------------------------------------------------------------ *)
(* ImageViewerDialog: pure parts                                        *)
(* ------------------------------------------------------------------ *)
\* variant: the lower clamp is missing
ClampIndexNoFloor(current_index, n) == Min(current_index, n - 1)

\* self.index = max(0, min(current_index, len(paths) - 1))
ClampIndex(current_index, n) == Max(0, Min(current_index, n - 1))

\* variant: without an image the scale is 0.0
fit_width_scale_zero(orig, vp) ==
  IF orig.isNull \/ orig.w <= 0 THEN <<0, 1>> ELSE <<vp[1], orig.w>>

\* _fit_width_scale(): viewport width over image width, 1.0 without image
fit_width_scale(orig, vp) ==
  IF orig.isNull \/ orig.w <= 0 THEN <<1, 1>> ELSE <<vp[1], orig.w>>

\* _fit_height_scale()
fit_height_scale(orig, vp) ==
  IF orig.isNull \/ orig.h <= 0 THEN <<1, 1>> ELSE <<vp[2], orig.h>>

\* variant: the percentage is divided with integer division
TargetScaleIntDiv(zp, orig, vp) ==
  IF zp = 0 THEN fit_width_scale(orig, vp)
  ELSE IF zp = -1 THEN fit_height_scale(orig, vp)
  ELSE <<zp - (zp % 100), 100>>

\* target_scale of _apply_zoom for a zoom_percent value
TargetScale(zp, orig, vp) ==
  IF zp = 0 THEN fit_width_scale(orig, vp)
  ELSE IF zp = -1 THEN fit_height_scale(orig, vp)
  ELSE <<zp, 100>>

\* variant: the floor of one pixel is missing
RenderedDimNoFloor(o, scale) == IntOfProduct(o, scale)

\* nw = max(1, int(ow * target_scale))
RenderedDim(o, scale) == Max(1, IntOfProduct(o, scale))

\* zoom_percent_display
DisplayPercent(scale) == ClampZoom(IntOfProduct(100, scale))

\* text of zoom_label
ZoomLabelText(zp, scale) ==
  [kind |-> IF zp = 0 THEN "width" ELSE IF zp = -1 THEN "height" ELSE "percent",
   pct  |-> DisplayPercent(scale)]

\* zoom_label.setText("-")
DashLabel == [kind |-> "dash", pct |-> 0]

\* maximum of a scroll bar of the scroll area: the part of the label that
\* does not fit the viewport
ScrollMax(labelDim, vpDim) == Max(0, labelDim - vpDim)

\* a scroll bar value after its range changed
Rebound(value, labelDim, vpDim) == Min(value, ScrollMax(labelDim, vpDim))

\* _apply_zoom(): r holds target_scale, image_label, zoom_label, hbar, vbar
apply_zoom(zp, orig, vp, r) ==
  IF orig.isNull THEN [r EXCEPT !.zoom_label = DashLabel]
  ELSE LET scale == TargetScale(zp, orig, vp)
           nw == RenderedDim(orig.w, scale)
           nh == RenderedDim(orig.h, scale)
       IN  [target_scale |-> scale,
            image_label  |-> [content |-> "pixmap", w |-> nw, h |-> nh],
            zoom_label   |-> ZoomLabelText(zp, scale),
            hbar         |-> Rebound(r.hbar, nw, vp[1]),
            vbar         |-> Rebound(r.vbar, nh, vp[2])]

\* variant: once a file failed to decode nothing is loaded any more
load_image_failure_sticks(ps, idx, zp, vp, orig, lp, r) ==
  IF ps = << >> \/ idx < 0 \/ idx >= Len(ps) \/ (orig.isNull /\ lp.dir # "")
    THEN [original |-> orig, loaded_path |-> lp, r |-> r]
    ELSE LET path == ps[idx + 1]
             pix  == QPixmapOf(path)
         IN  IF pix.isNull
               THEN [original |-> pix, loaded_path |-> path,
                     r |-> [r EXCEPT !.image_label.content = "text"]]
               ELSE [original |-> pix, loaded_path |-> path,
                     r |-> apply_zoom(zp, pix, vp, r)]

\* _load_image(): the pixmap, the path it was read from and the render
load_image(ps, idx, zp, vp, orig, lp, r) ==
  IF ps = << >> \/ idx < 0 \/ idx >= Len(ps)
    THEN [original |-> orig, loaded_path |-> lp, r |-> r]
    ELSE LET path == ps[idx + 1]
             pix  == QPixmapOf(path)
         IN  IF pix.isNull
               THEN [original |-> pix, loaded_path |-> path,
                     r |-> [r EXCEPT !.image_label.content = "text"]]
               ELSE [original |-> pix, loaded_path |-> path,
                     r |-> apply_zoom(zp, pix, vp, r)]

\* _update_navigation_buttons()
PrevEnabled(ps, idx) == Len(ps) > 0 /\ idx > 0
\* variant: next stays enabled on the last image
NextEnabledAtLast(ps, idx) == Len(ps) > 0 /\ idx <= Len(ps) - 1
NextEnabled(ps, idx) == Len(ps) > 0 /\ idx < Len(ps) - 1

\* fit mode frozen into a percentage: max(ZOOM_MIN, int(scale * 100))
FreezeFit(scale) == Max(ZOOM_MIN, IntOfProduct(100, scale))

\* variant: a fit mode is stepped without being frozen first
FrozenNot(zp, orig, vp) == zp

\* zoom_percent after the first branch of _zoom_in / _zoom_out
Frozen(zp, orig, vp) ==
  IF zp = 0 THEN FreezeFit(fit_width_scale(orig, vp))
  ELSE IF zp = -1 THEN FreezeFit(fit_height_scale(orig, vp))
  ELSE zp

\* min(ZOOM_MAX, zoom_percent + ZOOM_STEP)
StepIn(p) == Min(ZOOM_MAX, p + ZOOM_STEP)

\* variant: the lower clamp is missing
StepOutNoClamp(p) == p - ZOOM_STEP

\* max(ZOOM_MIN, zoom_percent - ZOOM_STEP)
StepOut(p) == Max(ZOOM_MIN, p - ZOOM_STEP)

\* variant: the new value is not clamped into the bar's range
DragValueNoClamp(start, delta, labelDim, vpDim) == start - delta

\* max(bar.minimum(), min(bar.maximum(), start - delta))
DragValue(start, delta, labelDim, vpDim) ==
  Max(0, Min(ScrollMax(labelDim, vpDim), start - delta))

(* ------------------------------------------------------------------ *)
(* State                                                                *)
(* ------------------------------------------------------------------ *)
VARIABLES
  folder,          \* ImageThumbnailViewer.folder
  thumbs,          \* sorted_paths the thumbnails' click handlers are bound to
  path_edit,       \* path_edit.text(), as character codes
  lastFolder,      \* settings key "lastFolder": << >> or <<text>>
  imageViewZoom,   \* settings key "imageViewZoom": << >> or <<v>>
  dlg,             \* an ImageViewerDialog is executing (modal)
  paths,           \* ImageViewerDialog.paths
  index,           \* ImageViewerDialog.index
  zoom_percent,    \* 0 fit width, -1 fit height, else a percentage
  original,        \* _original: the decoded pixmap (null when none)
  loaded_path,     \* the path _original was read from
  target_scale,    \* scale of the last render, <<num, den>>
  image_label,     \* image_label: content and size
  zoom_label,      \* text of zoom_label
  btn_prev,        \* btn_prev.isEnabled()
  btn_next,        \* btn_next.isEnabled()
  viewport,        \* scroll.viewport() size, <<width, height>>
  dragging,        \* _dragging
  drag_start_pos,  \* _drag_start_pos: << >> for None, else <<x, y>>
  drag_start_h,    \* _drag_start_h
  drag_start_v,    \* _drag_start_v
  hbar,            \* scroll.horizontalScrollBar().value()
  vbar,            \* scroll.verticalScrollBar().value()
  pointerEvents,   \* pointer events this dialog has handled
  lastOp           \* the handler that ran last and what it ran on: the index
                   \* requested (open) or current (prev, next), zoom_percent
                   \* (zoom handlers), the viewport width (resize), the
                   \* pointer's x (press, release, move), the delta (wheel)

mainVars == <<folder, thumbs, path_edit, lastFolder>>
renderVars == <<target_scale, image_label, zoom_label, hbar, vbar>>
dragVars == <<dragging, drag_start_pos, drag_start_h, drag_start_v,
              pointerEvents>>
navVars == <<paths, index, original, loaded_path, btn_prev, btn_next>>
vars == <<folder, thumbs, path_edit, lastFolder, imageViewZoom, dlg, paths, index, zoom_percent,
          original, loaded_path, target_scale, image_label, zoom_label,
          btn_prev, btn_next, viewport, dragging, drag_start_pos,
          drag_start_h, drag_start_v, hbar, vbar, pointerEvents, lastOp>>

NoPath == [dir |-> "", name |-> << >>]

\* the render of a freshly built dialog: zoom_label "100%", an empty label
\* of the minimum size 1 x 1, scroll bars at 0
InitialRender ==
  [target_scale |-> <<1, 1>>,
   image_label  |-> [content |-> "empty", w |-> 1, h |-> 1],
   zoom_label   |-> [kind |-> "percent", pct |-> 100],
   hbar |-> 0, vbar |-> 0]

Render ==
  [target_scale |-> target_scale, image_label |-> image_label,
   zoom_label |-> zoom_label, hbar |-> hbar, vbar |-> vbar]

SetRender(r) ==
  /\ target_scale' = r.target_scale
  /\ image_label' = r.image_label
  /\ zoom_label' = r.zoom_label
  /\ hbar' = r.hbar
  /\ vbar' = r.vbar

Op(name, arg) == [op |-> name, arg |-> arg]

\* no dialog exists: its fields hold fixed values
NoDialog ==
  /\ dlg' = FALSE
  /\ paths' = << >>
  /\ index' = 0
  /\ zoom_percent' = 0
  /\ original' = NullPixmap
  /\ loaded_path' = NoPath
  /\ SetRender(InitialRender)
  /\ btn_prev' = FALSE
  /\ btn_next' = FALSE
  /\ viewport' = <<0, 0>>
  /\ dragging' = FALSE
  /\ drag_start_pos' = << >>
  /\ drag_start_h' = 0
  /\ drag_start_v' = 0
  /\ pointerEvents' = 0

RECURSIVE ListingOrder(_)
\* variant: the thumbnails follow the listing order (here: descending)
ListingOrder(S) ==
  IF S = {} THEN << >>
  ELSE LET m == CHOOSE x \in S : \A y \in S \ {x} : PathLess(y, x)
       IN  <<m>> \o ListingOrder(S \ {m})

\* variant: load_thumbnails() without sorted()
load_thumbnails_unsorted(d) == ListingOrder(get_image_files(d))

\* load_thumbnails(): the sorted list the thumbnails are bound to
load_thumbnails(d) == SortedSeq(get_image_files(d))

\* the dialog's fields while no dialog exists
InitDialog ==
  /\ dlg = FALSE
  /\ paths = << >>
  /\ index = 0
  /\ zoom_percent = 0
  /\ original = NullPixmap
  /\ loaded_path = NoPath
  /\ target_scale = InitialRender.target_scale
  /\ image_label = InitialRender.image_label
  /\ zoom_label = InitialRender.zoom_label
  /\ hbar = 0
  /\ vbar = 0
  /\ btn_prev = FALSE
  /\ btn_next = FALSE
  /\ viewport = <<0, 0>>
  /\ dragging = FALSE
  /\ drag_start_pos = << >>
  /\ drag_start_h = 0
  /\ drag_start_v = 0
  /\ pointerEvents = 0

\* ImageThumbnailViewer.__init__ with the last folder lf remembered
InitMainWindow(lf, desktop) ==
  /\ lastFolder = lf
  /\ folder = (IF load_last_folder(lf) # NoFolder
                 THEN load_last_folder(lf)
                 ELSE get_default_folder(desktop))
  /\ path_edit = PathStr(Resolve(folder))
  /\ thumbs = load_thumbnails(folder)

\* the program started on a folder it remembered
Init ==
  /\ \E d \in Directories : InitMainWindow(<<PathStr(d)>>, << >>)
  /\ imageViewZoom \in StoredZoomValues
  /\ InitDialog
  /\ lastOp = Op("init", 0)

(* ------------------------------------------------------------------ *)
(* Handlers                                                             *)
(* ------------------------------------------------------------------ *)
\* variant: the dialog is constructed whatever the thumbnail list holds
OpenImageView_unguarded(idx, vp) ==
  /\ ~dlg
  /\ lastOp' = Op("open", idx)
  /\ UNCHANGED <<mainVars, imageViewZoom>>
  /\ LET i  == ClampIndex(idx, Len(thumbs))
         zp == load_image_view_zoom(imageViewZoom)
         L  == load_image(thumbs, i, zp, vp, NullPixmap, NoPath,
                          InitialRender)
     IN  /\ dlg' = TRUE
         /\ paths' = thumbs
         /\ index' = i
         /\ zoom_percent' = zp
         /\ original' = L.original
         /\ loaded_path' = L.loaded_path
         /\ SetRender(apply_zoom(zp, L.original, vp, L.r))
         /\ btn_prev' = PrevEnabled(thumbs, i)
         /\ btn_next' = NextEnabled(thumbs, i)
         /\ viewport' = vp
         /\ dragging' = FALSE
         /\ drag_start_pos' = << >>
         /\ drag_start_h' = 0
         /\ drag_start_v' = 0
         /\ pointerEvents' = 0


\* _open_image_view(sorted_paths, idx) and ImageViewerDialog.__init__,
\* with the viewport size vp the new dialog has
OpenImageView(idx, vp) ==
  /\ ~dlg
  /\ lastOp' = Op("open", idx)
  /\ UNCHANGED <<mainVars, imageViewZoom>>
  /\ IF thumbs = << >>
       THEN UNCHANGED <<dlg, navVars, zoom_percent, renderVars, viewport,
                        dragVars>>
       ELSE LET i  == ClampIndex(idx, Len(thumbs))
                zp == load_image_view_zoom(imageViewZoom)
                L  == load_image(thumbs, i, zp, vp, NullPixmap, NoPath,
                                 InitialRender)
            IN  /\ dlg' = TRUE
                /\ paths' = thumbs
                /\ index' = i
                /\ zoom_percent' = zp
                /\ original' = L.original
                /\ loaded_path' = L.loaded_path
                /\ SetRender(apply_zoom(zp, L.original, vp, L.r))
                /\ btn_prev' = PrevEnabled(thumbs, i)
                /\ btn_next' = NextEnabled(thumbs, i)
                /\ viewport' = vp
                /\ dragging' = FALSE
                /\ drag_start_pos' = << >>
                /\ drag_start_h' = 0
                /\ drag_start_v' = 0
                /\ pointerEvents' = 0

\* index changed to i: _load_image()
Goto(i) ==
  LET L == load_image(paths, i, zoom_percent, viewport, original,
                      loaded_path, Render)
  IN  /\ index' = i
      /\ original' = L.original
      /\ loaded_path' = L.loaded_path
      /\ SetRender(L.r)
      /\ btn_prev' = PrevEnabled(paths, i)
      /\ btn_next' = NextEnabled(paths, i)
      /\ paths' = paths

\* variant: _go_prev() wraps around to the last image
go_prev_wrap ==
  /\ dlg
  /\ lastOp' = Op("prev", index)
  /\ UNCHANGED <<mainVars, imageViewZoom, dlg, zoom_percent, viewport,
                 dragVars>>
  /\ IF paths = << >>
       THEN UNCHANGED <<navVars, renderVars>>
       ELSE Goto(IF index <= 0 THEN Len(paths) - 1 ELSE index - 1)

\* _go_prev(): button or Left key
go_prev ==
  /\ dlg
  /\ lastOp' = Op("prev", index)
  /\ UNCHANGED <<mainVars, imageViewZoom, dlg, zoom_percent, viewport,
                 dragVars>>
  /\ IF paths = << >> \/ index <= 0
       THEN UNCHANGED <<navVars, renderVars>>
       ELSE Goto(index - 1)

\* variant: _go_next() returns to fit width for the image it loads
go_next_fit ==
  /\ dlg
  /\ lastOp' = Op("next", index)
  /\ UNCHANGED <<mainVars, imageViewZoom, dlg, viewport, dragVars>>
  /\ IF paths = << >> \/ index >= Len(paths) - 1
       THEN UNCHANGED <<navVars, renderVars, zoom_percent>>
       ELSE LET L == load_image(paths, index + 1, 0, viewport, original,
                                loaded_path, Render)
            IN  /\ zoom_percent' = 0
                /\ index' = index + 1
                /\ original' = L.original
                /\ loaded_path' = L.loaded_path
                /\ SetRender(L.r)
                /\ btn_prev' = PrevEnabled(paths, index + 1)
                /\ btn_next' = NextEnabled(paths, index + 1)
                /\ paths' = paths

\* _go_next(): button or Right key
go_next ==
  /\ dlg
  /\ lastOp' = Op("next", index)
  /\ UNCHANGED <<mainVars, imageViewZoom, dlg, zoom_percent, viewport,
                 dragVars>>
  /\ IF paths = << >> \/ index >= Len(paths) - 1
       THEN UNCHANGED <<navVars, renderVars>>
       ELSE Goto(index + 1)

\* zoom_percent set to zp, saved, rendered
SetZoom(zp) ==
  /\ zoom_percent' = zp
  /\ imageViewZoom' = save_image_view_zoom(zp)
  /\ SetRender(apply_zoom(zp, original, viewport, Render))
  /\ UNCHANGED <<mainVars, dlg, navVars, viewport, dragVars>>

\* _fit_width()
fit_width ==
  /\ dlg
  /\ lastOp' = Op("fit_width", 0)
  /\ SetZoom(0)

\* _fit_height()
fit_height ==
  /\ dlg
  /\ lastOp' = Op("fit_height", 0)
  /\ SetZoom(-1)

\* _zoom_in()
zoom_in ==
  /\ dlg
  /\ lastOp' = Op("zoom_in", zoom_percent)
  /\ SetZoom(StepIn(Frozen(zoom_percent, original, viewport)))

\* _zoom_out()
zoom_out ==
  /\ dlg
  /\ lastOp' = Op("zoom_out", zoom_percent)
  /\ SetZoom(StepOut(Frozen(zoom_percent, original, viewport)))

\* the wheel branch shared by eventFilter() and wheelEvent()
WheelZoom(delta) ==
  IF delta > 0
    THEN SetZoom(StepIn(Frozen(zoom_percent, original, viewport)))
  ELSE IF delta < 0
    THEN SetZoom(StepOut(Frozen(zoom_percent, original, viewport)))
  ELSE UNCHANGED <<mainVars, imageViewZoom, dlg, navVars, zoom_percent,
                   renderVars, viewport, dragVars>>

\* variant: the filter does not consume the event, which then also reaches
\* wheelEvent() of the dialog
filterWheel_propagates(delta) ==
  /\ dlg
  /\ lastOp' = Op("wheel", delta)
  /\ IF delta > 0
       THEN SetZoom(StepIn(StepIn(Frozen(zoom_percent, original, viewport))))
     ELSE IF delta < 0
       THEN SetZoom(StepOut(StepOut(Frozen(zoom_percent, original,
                                           viewport))))
     ELSE UNCHANGED <<mainVars, imageViewZoom, dlg, navVars, zoom_percent,
                      renderVars, viewport, dragVars>>

\* eventFilter(): wheel event on the scroll area's viewport; the filter
\* returns True, so the event goes no further
filterWheel(delta) ==
  /\ dlg
  /\ lastOp' = Op("wheel", delta)
  /\ WheelZoom(delta)

\* wheelEvent(): wheel event that reaches the dialog from any other widget
wheelEvent(delta) ==
  /\ dlg
  /\ lastOp' = Op("wheel", delta)
  /\ WheelZoom(delta)

\* variant: only the fit-width mode is rendered again
resizeEvent_width_only(vp) ==
  /\ dlg
  /\ lastOp' = Op("resize", viewport[1])
  /\ viewport' = vp
  /\ IF zoom_percent = 0
       THEN SetRender(apply_zoom(zoom_percent, original, vp, Render))
       ELSE /\ hbar' = Rebound(hbar, image_label.w, vp[1])
            /\ vbar' = Rebound(vbar, image_label.h, vp[2])
            /\ UNCHANGED <<target_scale, image_label, zoom_label>>
  /\ UNCHANGED <<mainVars, imageViewZoom, dlg, navVars, zoom_percent,
                 dragVars>>

\* resizeEvent(): the viewport has the size vp when the handler runs; the
\* scroll bars follow the new range in every mode
resizeEvent(vp) ==
  /\ dlg
  /\ lastOp' = Op("resize", viewport[1])
  /\ viewport' = vp
  /\ IF zoom_percent = 0 \/ zoom_percent = -1
       THEN SetRender(apply_zoom(zoom_percent, original, vp, Render))
       ELSE /\ hbar' = Rebound(hbar, image_label.w, vp[1])
            /\ vbar' = Rebound(vbar, image_label.h, vp[2])
            /\ UNCHANGED <<target_scale, image_label, zoom_label>>
  /\ UNCHANGED <<mainVars, imageViewZoom, dlg, navVars, zoom_percent,
                 dragVars>>

\* eventFilter(): left button pressed on the viewport at pos
mousePress(pos) ==
  /\ dlg
  /\ lastOp' = Op("press", pos[1])
  /\ pointerEvents < MaxPointerEvents
  /\ pointerEvents' = pointerEvents + 1
  /\ dragging' = TRUE
  /\ drag_start_pos' = pos
  /\ drag_start_h' = hbar
  /\ drag_start_v' = vbar
  /\ UNCHANGED <<mainVars, imageViewZoom, dlg, navVars, zoom_percent,
                 renderVars, viewport>>

\* variant: the release does not end the drag
mouseRelease_sticky(pos) ==
  /\ dlg
  /\ lastOp' = Op("release", pos[1])
  /\ pointerEvents < MaxPointerEvents
  /\ pointerEvents' = pointerEvents + 1
  /\ UNCHANGED <<mainVars, imageViewZoom, dlg, navVars, zoom_percent,
                 renderVars, viewport, dragging, drag_start_pos,
                 drag_start_h, drag_start_v>>

\* eventFilter(): left button released on the viewport at pos
mouseRelease(pos) ==
  /\ dlg
  /\ lastOp' = Op("release", pos[1])
  /\ dragging' = FALSE
  /\ pointerEvents < MaxPointerEvents
  /\ pointerEvents' = pointerEvents + 1
  /\ UNCHANGED <<mainVars, imageViewZoom, dlg, navVars, zoom_percent,
                 renderVars, viewport, drag_start_pos, drag_start_h,
                 drag_start_v>>

\* variant: each move is applied to the current offsets
mouseMove_relative(pos) ==
  /\ dlg
  /\ lastOp' = Op("move", pos[1])
  /\ IF dragging
       THEN /\ hbar' = DragValue(hbar, pos[1] - drag_start_pos[1],
                                 image_label.w, viewport[1])
            /\ vbar' = DragValue(vbar, pos[2] - drag_start_pos[2],
                                 image_label.h, viewport[2])
       ELSE UNCHANGED <<hbar, vbar>>
  /\ UNCHANGED <<mainVars, imageViewZoom, dlg, navVars, zoom_percent,
                 target_scale, image_label, zoom_label, viewport, dragging,
                 drag_start_pos, drag_start_h, drag_start_v>>
  /\ pointerEvents < MaxPointerEvents
  /\ pointerEvents' = pointerEvents + 1

\* eventFilter(): pointer moved over the viewport to pos
mouseMove(pos) ==
  /\ dlg
  /\ lastOp' = Op("move", pos[1])
  /\ IF dragging
       THEN /\ hbar' = DragValue(drag_start_h, pos[1] - drag_start_pos[1],
                                 image_label.w, viewport[1])
            /\ vbar' = DragValue(drag_start_v, pos[2] - drag_start_pos[2],
                                 image_label.h, viewport[2])
       ELSE UNCHANGED <<hbar, vbar>>
  /\ UNCHANGED <<mainVars, imageViewZoom, dlg, navVars, zoom_percent,
                 target_scale, image_label, zoom_label, viewport, dragging,
                 drag_start_pos, drag_start_h, drag_start_v>>
  /\ pointerEvents < MaxPointerEvents
  /\ pointerEvents' = pointerEvents + 1

\* keyPressEvent(): Escape or Q rejects the dialog; exec() returns
reject ==
  /\ dlg
  /\ lastOp' = Op("reject", 0)
  /\ NoDialog
  /\ UNCHANGED <<mainVars, imageViewZoom>>

\* every field of the dialog
dlgVars == <<dlg, navVars, zoom_percent, renderVars, viewport, dragVars>>

\* folder set to d, remembered, shown in the path field as text, and the
\* thumbnails cleared and loaded again
SetFolder(d, text) ==
  /\ folder' = d
  /\ lastFolder' = save_last_folder(d)
  /\ path_edit' = text
  /\ thumbs' = load_thumbnails(d)

\* variant: a path that is no directory is shown as an empty folder
navigate_unchecked(k) ==
  /\ ~dlg
  /\ lastOp' = Op("navigate", k)
  /\ UNCHANGED <<imageViewZoom, dlgVars>>
  /\ LET path_str == Strip(TypedTexts[k])
         q == PathFromStr(path_str)
     IN  IF path_str = << >>
           THEN /\ path_edit' = TypedTexts[k]
                /\ UNCHANGED <<folder, thumbs, lastFolder>>
           ELSE SetFolder(Resolve(q), PathStr(Resolve(q)))

\* _navigate_to_path_edit(): Enter pressed in the path field, which holds
\* the text TypedTexts[k]
navigate_to_path_edit(k) ==
  /\ ~dlg
  /\ lastOp' = Op("navigate", k)
  /\ UNCHANGED <<imageViewZoom, dlgVars>>
  /\ LET path_str == Strip(TypedTexts[k])
         q == PathFromStr(path_str)
     IN  IF path_str = << >>
           THEN /\ path_edit' = TypedTexts[k]
                /\ UNCHANGED <<folder, thumbs, lastFolder>>
         ELSE IF ~is_dir(q)
           THEN /\ path_edit' = PathStr(Resolve(folder))
                /\ UNCHANGED <<folder, thumbs, lastFolder>>
         ELSE SetFolder(Resolve(q), PathStr(Resolve(q)))

\* _choose_folder(): the folder dialog returned DialogResults[k]
choose_folder(k) ==
  /\ ~dlg
  /\ lastOp' = Op("choose", k)
  /\ UNCHANGED <<imageViewZoom, dlgVars>>
  /\ LET path_str == DialogResults[k]
     IN  IF path_str # << >>
           THEN SetFolder(PathFromStr(path_str),
                          PathStr(Resolve(PathFromStr(path_str))))
           ELSE UNCHANGED mainVars

Next ==
  \/ \E idx \in (0 - IndexSlack) .. (Len(thumbs) - 1 + IndexSlack),
        vp \in Viewports : OpenImageView(idx, vp)
  \/ go_prev
  \/ go_next
  \/ fit_width
  \/ fit_height
  \/ zoom_in
  \/ zoom_out
  \/ \E delta \in WheelDeltas : filterWheel(delta)
  \/ \E delta \in WheelDeltas : wheelEvent(delta)
  \/ \E vp \in Viewports : resizeEvent(vp)
  \/ \E pos \in PointsIn(folder) : mousePress(pos)
  \/ \E pos \in PointsIn(folder) : mouseRelease(pos)
  \/ \E pos \in PointsIn(folder) : mouseMove(pos)
  \/ reject

\* a viewer session on the folder the program started on
Spec == Init /\ [][Next]_vars

\* the program started with any remembered folder, or none
MainInit ==
  /\ \E lf \in StoredFolderValues, desktop \in DesktopLocations :
        InitMainWindow(lf, desktop)
  /\ imageViewZoom \in StoredZoomValues
  /\ InitDialog
  /\ lastOp = Op("init", 0)

\* the main window: folders are entered and chosen, viewers opened and
\* rejected
MainNext ==
  \/ \E k \in 1 .. Len(TypedTexts) : navigate_to_path_edit(k)
  \/ \E k \in 1 .. Len(DialogResults) : choose_folder(k)
  \/ \E idx \in (0 - IndexSlack) .. (Len(thumbs) - 1 + IndexSlack),
        vp \in Viewports : OpenImageView(idx, vp)
  \/ reject

MainSpec == MainInit /\ [][MainNext]_vars

(* ------------------------------------------------------------------ *)
(* Properties                                                           *)
(* ------------------------------------------------------------------ *)
\* zoom_percent stands for Percent(zoom_percent)
IsPercent(zp) == zp # 0 /\ zp # -1

\* an image is decoded and displayed
Displayed == dlg /\ ~original.isNull /\ image_label.content = "pixmap"

A_PNG == PathOf("pics", <<97,46,112,110,103>>)
B_JPG == PathOf("pics", <<98,46,106,112,103>>)
C_GIF == PathOf("pics", <<99,46,103,105,102>>)

\* C1: while a viewer is open its image set is non-empty and
\* 0 <= index < len(paths), whatever index was requested and whatever
\* handlers ran since.
C1_IndexInRange ==
  dlg => (paths # << >> /\ 0 <= index /\ index < Len(paths))

\* C1 witness: a viewer was opened with a requested index outside
\* 0..len-1 and stands at a valid index
C1_Witness ==
  /\ dlg
  /\ lastOp.op = "open"
  /\ (lastOp.arg < 0 \/ lastOp.arg > Len(paths) - 1)
  /\ 0 <= index
  /\ index < Len(paths)

\* C2: prev() at index 0 and next() at the last index change nothing (no
\* wrap-around) and the corresponding button is disabled ("no previous" /
\* "no next").
C2_BoundaryNoOp ==
  [][ /\ (dlg /\ lastOp'.op = "prev" /\ index = 0)
         => (index' = 0 /\ ~btn_prev'
             /\ UNCHANGED <<navVars, renderVars, zoom_percent, viewport,
                            imageViewZoom, dragVars, dlg>>)
      /\ (dlg /\ lastOp'.op = "next" /\ index = Len(paths) - 1)
         => (index' = index /\ ~btn_next'
             /\ UNCHANGED <<navVars, renderVars, zoom_percent, viewport,
                            imageViewZoom, dragVars, dlg>>) ]_vars

\* C2 witness: next() was called at the last index of a set of several
\* images and the viewer still stands there
C2_Witness ==
  /\ dlg
  /\ Len(paths) > 1
  /\ lastOp = Op("next", Len(paths) - 1)
  /\ index = Len(paths) - 1
  /\ ~btn_next

\* C3: a thumbnail click on the i-th path of the sorted listing opens the
\* viewer at index i; next() below the last index adds exactly 1, prev()
\* above 0 subtracts exactly 1, and the image then loaded is the path at the
\* new index.  In "pics" (a.png, b.jpg, c.gif): opening b.jpg gives 1,
\* next() 2, a further next() stays at 2, prev() twice gives 0.
C3_Navigation ==
  /\ [] (folder = "pics" => thumbs = <<A_PNG, B_JPG, C_GIF>>)
  /\ [] ((dlg /\ folder = "pics")
           => /\ lastOp = Op("open", 1) => (index = 1 /\ loaded_path = B_JPG)
              /\ lastOp = Op("next", 1) => (index = 2 /\ loaded_path = C_GIF)
              /\ lastOp = Op("next", 2) => index = 2
              /\ lastOp = Op("prev", 2) => (index = 1 /\ loaded_path = B_JPG)
              /\ lastOp = Op("prev", 1) => (index = 0 /\ loaded_path = A_PNG))
  /\ [][ /\ (~dlg /\ lastOp'.op = "open" /\ thumbs # << >>
                /\ lastOp'.arg \in 0 .. Len(thumbs) - 1)
            => (dlg' /\ index' = lastOp'.arg /\ paths' = thumbs
                /\ loaded_path' = thumbs[lastOp'.arg + 1])
         /\ (dlg /\ lastOp'.op = "next" /\ index < Len(paths) - 1)
            => (index' = index + 1 /\ paths' = paths
                /\ loaded_path' = paths[index + 2])
         /\ (dlg /\ lastOp'.op = "prev" /\ index > 0)
            => (index' = index - 1 /\ paths' = paths
                /\ loaded_path' = paths[index]) ]_vars

\* C3 witness: in "pics", prev() from index 1 arrived at a.png
C3_Witness ==
  /\ dlg
  /\ folder = "pics"
  /\ lastOp = Op("prev", 1)
  /\ index = 0
  /\ loaded_path = A_PNG

\* C4: whenever the mode is Percent(p), 10 <= p <= 500.
C4_PercentInRange ==
  (dlg /\ IsPercent(zoom_percent))
    => (ZOOM_MIN <= zoom_percent /\ zoom_percent <= ZOOM_MAX)

PctFloor(extent, imageExtent) == (extent * 100) \div imageExtent
PctCeil(extent, imageExtent) == (extent * 100 + imageExtent - 1) \div imageExtent

\* the result of one zoom step from a frozen percentage f
SteppedIn(f) == IF f + 10 > 500 THEN 500 ELSE f + 10
SteppedOut(f) == IF f - 10 < 10 THEN 10 ELSE f - 10

\* the current extents a fit mode relates: <<viewport extent, image extent>>
FitExtents ==
  IF zoom_percent = 0 THEN <<viewport[1], original.w>>
  ELSE <<viewport[2], original.h>>

\* C6: zoom_in()/zoom_out() in FitWidth or FitHeight with an image loaded
\* leaves the mode in Percent, at the step applied to the percentage that the
\* current viewport and image give (no less than 10); FitWidth with viewport
\* width 1000 and image width 500 gives Percent(210) after one zoom_in().
C6_FreezeThenStep ==
  /\ [][ (dlg /\ ~IsPercent(zoom_percent) /\ ~original.isNull
            /\ lastOp'.op \in {"zoom_in", "zoom_out"})
         => /\ IsPercent(zoom_percent')
            /\ \E f \in PctFloor(FitExtents[1], FitExtents[2])
                         .. PctCeil(FitExtents[1], FitExtents[2]) :
                 zoom_percent' =
                   IF lastOp'.op = "zoom_in"
                     THEN SteppedIn(Max(ZOOM_MIN, f))
                     ELSE SteppedOut(Max(ZOOM_MIN, f)) ]_vars
  /\ [] ((dlg /\ lastOp = Op("zoom_in", 0) /\ viewport[1] = 1000
              /\ ~original.isNull /\ original.w = 500)
           => zoom_percent = 210)

\* C6 witness: FitWidth, viewport width 1000, image width 500, one zoom_in()
C6_Witness ==
  /\ dlg
  /\ lastOp = Op("zoom_in", 0)
  /\ viewport[1] = 1000
  /\ ~original.isNull
  /\ original.w = 500
  /\ zoom_percent = 210

\* the mode the persisted value stands for, in the encoding of zoom_percent
\* (-2 standing for Original)
DecodedMode(store) ==
  IF store = << >> THEN 0
  ELSE IF store[1] \in {0, -1, -2} THEN store[1]
  ELSE IF store[1] < 10 THEN 10
  ELSE IF store[1] > 500 THEN 500
  ELSE store[1]

\* C7: a newly opened viewer starts in the mode the persisted value decodes
\* to: 0 FitWidth, -1 FitHeight, -2 Original, else Percent(clamped value);
\* FitWidth when nothing is stored.
C7_InitialMode ==
  (dlg /\ lastOp.op = "open") => zoom_percent = DecodedMode(imageViewZoom)

\* C8: every render has scale > 0 and a size of at least 1 x 1.
C8_RenderPositive ==
  (dlg /\ image_label.content = "pixmap")
    => /\ target_scale[1] > 0
       /\ target_scale[2] > 0
       /\ image_label.w >= 1
       /\ image_label.h >= 1

\* C8 witness: fit width of the 300000 x 250 image in the viewport of
\* width 1000: the height 250 * 1000 / 300000 truncates to 0 and is
\* rendered as 1
C8_Witness ==
  /\ Displayed
  /\ zoom_percent = 0
  /\ original.w = 300000
  /\ viewport[1] = 1000
  /\ (original.h * viewport[1]) \div original.w = 0
  /\ image_label.h = 1

\* C9: in Percent(p), 10 <= p <= 500, the displayed scale is p / 100 and the
\* rendered size is that of the image at p percent; a resize in Percent mode
\* changes neither the mode nor the render.
C9_PercentRender ==
  /\ [] ((Displayed /\ IsPercent(zoom_percent)
             /\ zoom_percent >= 10 /\ zoom_percent <= 500)
           => /\ target_scale = <<zoom_percent, 100>>
              /\ image_label.w
                   = Max(1, IntOfProduct(original.w, <<zoom_percent, 100>>))
              /\ image_label.h
                   = Max(1, IntOfProduct(original.h, <<zoom_percent, 100>>)))
  /\ [][ (dlg /\ lastOp'.op = "resize" /\ IsPercent(zoom_percent))
         => /\ zoom_percent' = zoom_percent
            /\ target_scale' = target_scale
            /\ image_label' = image_label ]_vars

\* C9 witness: the viewport width changed while an image is displayed at
\* Percent(210)
C9_Witness ==
  /\ Displayed
  /\ lastOp.op = "resize"
  /\ lastOp.arg # viewport[1]
  /\ zoom_percent = 210
  /\ target_scale = <<210, 100>>

\* C10: in FitWidth (FitHeight) with an image loaded the displayed scale is
\* viewport width / image width (viewport height / image height) of the
\* current viewport, in particular after every resize.
C10_FitFollowsViewport ==
  (dlg /\ ~original.isNull /\ ~IsPercent(zoom_percent))
    => /\ image_label.content = "pixmap"
       /\ target_scale = FitExtents
       /\ image_label.w = Max(1, IntOfProduct(original.w, FitExtents))
       /\ image_label.h = Max(1, IntOfProduct(original.h, FitExtents))

\* C10 witness: the viewport width changed in FitHeight and the scale is
\* the new viewport height over the image height
C10_Witness ==
  /\ Displayed
  /\ lastOp.op = "resize"
  /\ lastOp.arg # viewport[1]
  /\ zoom_percent = -1
  /\ target_scale = <<viewport[2], original.h>>

\* a scroll offset o is admissible for a rendered extent r in a viewport
\* extent v
OffsetInRange(o, r, v) == IF r > v THEN 0 <= o /\ o <= r - v ELSE o = 0

\* C11: after a drag move the scroll offset of each axis lies in
\* [0, rendered extent - viewport extent] when the rendered image is larger
\* than the viewport on that axis, and is 0 when it is not.
C11_PanClamp ==
  (dlg /\ lastOp.op = "move")
    => /\ OffsetInRange(hbar, image_label.w, viewport[1])
       /\ OffsetInRange(vbar, image_label.h, viewport[2])

\* C11 witness: the image is 50 wider than the viewport and a drag that
\* started at offset 0 and asked for more stands at the maximum 50
C11_Witness ==
  /\ Displayed
  /\ lastOp.op = "move"
  /\ dragging
  /\ drag_start_h = 0
  /\ image_label.w - viewport[1] = 50
  /\ hbar = 50

\* C12: a wheel event with a positive (negative) vertical delta has the
\* effect of exactly one zoom_in() (zoom_out()), whatever the delta's
\* magnitude and whichever handler receives it: in Percent mode p moves by
\* one step of 10, clamped; in a fit mode the mode becomes Percent at one
\* step from the frozen percentage; the result is saved.  A zero delta
\* changes neither the mode, the saved value nor the render.
C12_WheelNotch ==
  [][ (dlg /\ lastOp'.op = "wheel")
      => /\ (lastOp'.arg > 0 /\ IsPercent(zoom_percent))
              => zoom_percent' = SteppedIn(zoom_percent)
         /\ (lastOp'.arg < 0 /\ IsPercent(zoom_percent))
              => zoom_percent' = SteppedOut(zoom_percent)
         /\ (lastOp'.arg # 0 /\ ~IsPercent(zoom_percent))
              => /\ IsPercent(zoom_percent')
                 /\ \E f \in (IF original.isNull THEN {100}
                               ELSE PctFloor(FitExtents[1], FitExtents[2])
                                    .. PctCeil(FitExtents[1], FitExtents[2])) :
                      zoom_percent' =
                        IF lastOp'.arg > 0
                          THEN SteppedIn(Max(ZOOM_MIN, f))
                          ELSE SteppedOut(Max(ZOOM_MIN, f))
         /\ lastOp'.arg # 0 => imageViewZoom' = <<zoom_percent'>>
         /\ lastOp'.arg = 0
              => UNCHANGED <<zoom_percent, imageViewZoom, renderVars>> ]_vars

\* C12 witness: a wheel event of two notches' delta left the viewer at
\* Percent(20), one step above the minimum, and saved it
C12_Witness ==
  /\ dlg
  /\ lastOp = Op("wheel", 240)
  /\ zoom_percent = 20
  /\ imageViewZoom = <<20>>

\* the files of folder d that the listing has to hold: regular files whose
\* lowercased extension is one of the allowed ones
ListedFiles(d) ==
  { PathOf(d, e.name) : e \in
      { x \in DirEntries(Resolve(d)) :
          /\ x.is_file
          /\ \E ext \in IMAGE_EXTENSIONS :
               /\ Len(x.name) > Len(ext)
               /\ \A i \in 1 .. Len(ext) :
                    LowerChar(x.name[Len(x.name) - Len(ext) + i]) = ext[i] } }

\* C13: the image list of the active folder is strictly ascending by path
\* (hence without duplicates), holds exactly the regular files of the
\* folder whose lowercased extension is allowed, is empty when the folder is
\* not an existing directory, and equals a fresh listing of that folder.
C13_ListImages ==
  /\ \A i, j \in 1 .. Len(thumbs) : i < j => PathLess(thumbs[i], thumbs[j])
  /\ is_dir(folder) => { thumbs[i] : i \in 1 .. Len(thumbs) } = ListedFiles(folder)
  /\ ~is_dir(folder) => thumbs = << >>
  /\ thumbs = load_thumbnails(folder)

\* C13 witness: the folder "mixed" was entered in the path field; it lists
\* M.PNG, x.bmp and z.ico, not the hidden file ".png"
C13_Witness ==
  /\ lastOp.op = "navigate"
  /\ folder = "mixed"
  /\ thumbs = << PathOf("mixed", <<77,46,80,78,71>>),
                 PathOf("mixed", <<120,46,98,109,112>>),
                 PathOf("mixed", <<122,46,105,99,111>>) >>

\* the viewer is in the mode it was opened in and the persisted value
\* encodes Original
PersistedOriginal == dlg /\ imageViewZoom = <<-2>>

\* C14: in Original mode the scale is 1.0 whatever the viewport, zoom_in()
\* yields Percent(110) and zoom_out() yields Percent(90).
C14_OriginalMode ==
  /\ [] ((PersistedOriginal /\ Displayed)
           => target_scale[1] = target_scale[2])
  /\ [][ /\ (PersistedOriginal /\ lastOp'.op = "zoom_in")
            => zoom_percent' = 110
         /\ (PersistedOriginal /\ lastOp'.op = "zoom_out")
            => zoom_percent' = 90 ]_vars

\* the percentage extent / imageExtent * 100 rounded to the nearest integer
PctRound(extent, imageExtent) ==
  (2 * extent * 100 + imageExtent) \div (2 * imageExtent)

\* C15: zoom_in()/zoom_out() in a fit mode with an image loaded freezes the
\* mode at the fit scale times 100 rounded to the nearest integer (0.476
\* gives 48) and then applies the step of 10 to that value.
C15_FreezeRounds ==
  [][ (dlg /\ ~IsPercent(zoom_percent) /\ ~original.isNull
         /\ lastOp'.op \in {"zoom_in", "zoom_out"})
      => zoom_percent' =
           IF lastOp'.op = "zoom_in"
             THEN SteppedIn(Max(ZOOM_MIN, PctRound(FitExtents[1],
                                                   FitExtents[2])))
             ELSE SteppedOut(Max(ZOOM_MIN, PctRound(FitExtents[1],
                                                    FitExtents[2]))) ]_vars

\* C16: next(), prev(), a resize, a drag press, move or release, and a load
\* that fails leave zoom_percent and the saved value as they are; the mode
\* changes only in the fit and zoom handlers (wheel included).
C16_ModeFrame ==
  [][ (dlg /\ dlg')
      => /\ lastOp'.op \in {"prev", "next", "resize", "press", "release",
                            "move"}
              => (zoom_percent' = zoom_percent
                  /\ imageViewZoom' = imageViewZoom)
         /\ zoom_percent' # zoom_percent
              => lastOp'.op \in {"fit_width", "fit_height", "zoom_in",
                                 "zoom_out", "wheel"} ]_vars

\* C16 witness: next() arrived at a file that does not decode and the mode
\* is still Percent(210)
C16_Witness ==
  /\ dlg
  /\ lastOp.op = "next"
  /\ index = lastOp.arg + 1
  /\ original.isNull
  /\ zoom_percent = 210
  /\ imageViewZoom = <<210>>

\* C17: after every fit-width, fit-height, zoom_in or zoom_out (wheel
\* included) the saved value is zoom_percent itself (0, -1 or p), and no
\* step of an open viewer changes zoom_percent without saving it.
C17_WriteThrough ==
  /\ [] ((dlg /\ (lastOp.op \in {"fit_width", "fit_height", "zoom_in",
                                 "zoom_out"}
                   \/ (lastOp.op = "wheel" /\ lastOp.arg # 0)))
           => imageViewZoom = <<zoom_percent>>)
  /\ [][ (dlg /\ dlg' /\ zoom_percent' # zoom_percent)
         => imageViewZoom' = <<zoom_percent'>> ]_vars

\* C17 witness: fit-height ran and -1 is saved
C17_Witness ==
  /\ dlg
  /\ lastOp.op = "fit_height"
  /\ zoom_percent = -1
  /\ imageViewZoom = <<-1>>

\* x clamped into 0 .. hi (0 when hi is negative)
ClampTo(x, hi) == IF x < 0 \/ hi < 0 THEN 0 ELSE IF x > hi THEN hi ELSE x

\* C18: a move during a drag sets each offset to the clamped value of the
\* offset recorded at the press minus the pointer's displacement from the
\* press position, whatever the current offset is; back at the press
\* position the recorded offsets return when they are still in range.
C18_DragFormula ==
  [][ (dlg /\ dragging /\ lastOp'.op = "move")
      => \E pos \in Points :
           /\ pos[1] = lastOp'.arg
           /\ hbar' = ClampTo(drag_start_h - (pos[1] - drag_start_pos[1]),
                              image_label.w - viewport[1])
           /\ vbar' = ClampTo(drag_start_v - (pos[2] - drag_start_pos[2]),
                              image_label.h - viewport[2])
           /\ (pos = drag_start_pos
                 /\ drag_start_h <= image_label.w - viewport[1]
                 /\ drag_start_v <= image_label.h - viewport[2])
                => (hbar' = drag_start_h /\ vbar' = drag_start_v) ]_vars

\* C18 witness: pressed at (100, 50) with offsets (0, 0), the pointer is at
\* (0, 0) and the offsets are (100, 50)
C18_Witness ==
  /\ dlg
  /\ dragging
  /\ lastOp = Op("move", 0)
  /\ drag_start_pos = <<100, 50>>
  /\ drag_start_h = 0
  /\ drag_start_v = 0
  /\ hbar = 100
  /\ vbar = 50

\* C19: _dragging holds from a left-button press to the next release and
\* changes in no other handler; a press, also during a drag, records its
\* position and the current offsets; a move outside a drag leaves the
\* offsets alone; during a drag a press position is recorded.
C19_DragStateMachine ==
  /\ [] ((dlg /\ dragging) => drag_start_pos \in Points)
  /\ [][ (dlg /\ dlg')
         => /\ lastOp'.op = "press"
                 => /\ dragging'
                    /\ drag_start_pos' \in Points
                    /\ drag_start_pos'[1] = lastOp'.arg
                    /\ drag_start_h' = hbar
                    /\ drag_start_v' = vbar
            /\ lastOp'.op = "release" => ~dragging'
            /\ lastOp'.op \notin {"press", "release"}
                 => UNCHANGED <<dragging, drag_start_pos, drag_start_h,
                                drag_start_v>>
            /\ (lastOp'.op = "move" /\ ~dragging)
                 => UNCHANGED <<hbar, vbar>> ]_vars

\* C19 witness: a second press during a drag that had moved the offset to
\* 100 recorded the new position and that offset
C19_Witness ==
  /\ dlg
  /\ dragging
  /\ lastOp = Op("press", 0)
  /\ pointerEvents = 3
  /\ drag_start_pos = <<0, 0>>
  /\ drag_start_h = 100
  /\ hbar = 100

\* the k-th typed text without the blanks around it
TypedPath(k) == Strip(TypedTexts[k])

\* the existing directories that text names
TypedDirs(k) ==
  { d \in KnownPaths : PathStr(d) = TypedPath(k)
                        /\ Resolve(d) \in Directories }

\* C20: submitting a typed path that is not an existing directory leaves the
\* active folder, the remembered folder, the image list, the viewer and the
\* saved zoom as they are and puts the current folder back in the path
\* field; submitting a directory makes it the active folder, remembers it,
\* shows it in the path field and lists its images anew.  (A text that is
\* blank is no path: nothing changes.)
C20_InvalidPath ==
  [][ lastOp'.op = "navigate"
      => /\ UNCHANGED <<imageViewZoom, dlgVars>>
         /\ (TypedPath(lastOp'.arg) # << >> /\ TypedDirs(lastOp'.arg) = {})
              => /\ UNCHANGED <<folder, lastFolder, thumbs>>
                 /\ path_edit' = PathStr(Resolve(folder))
         /\ \A d \in TypedDirs(lastOp'.arg) :
              /\ folder' = Resolve(d)
              /\ lastFolder' = << PathStr(Resolve(d)) >>
              /\ path_edit' = PathStr(Resolve(d))
              /\ { thumbs'[i] : i \in 1 .. Len(thumbs') }
                   = ListedFiles(Resolve(d))
              /\ Len(thumbs') = Cardinality(ListedFiles(Resolve(d)))
         /\ TypedPath(lastOp'.arg) = << >>
              => UNCHANGED <<folder, lastFolder, thumbs>> ]_vars

\* C20 witness: "gone" was submitted while "mixed" was the active folder;
\* the folder and its three images are still there and the field shows
\* "mixed"
C20_Witness ==
  /\ lastOp = Op("navigate", 4)
  /\ TypedDirs(4) = {}
  /\ folder = "mixed"
  /\ Len(thumbs) = 3
  /\ lastFolder = << PathStr("mixed") >>
  /\ path_edit = PathStr("mixed")

\* the scale the current mode asks for with the current image and viewport
ModeScale ==
  IF zoom_percent = 0 THEN <<viewport[1], original.w>>
  ELSE IF zoom_percent = -1 THEN <<viewport[2], original.h>>
  ELSE <<zoom_percent, 100>>

\* C21: when the file at the current index does not decode the viewer shows
\* the placeholder text and stays open with its image list and an index in
\* range; next()/prev() onto such a file move the index by one and keep the
\* mode; from such a file next()/prev() still move by one within bounds,
\* and when the file arrived at decodes it is rendered at the scale of the
\* unchanged mode.
C21_DecodeFailure ==
  /\ [] ((dlg /\ original.isNull)
           => /\ image_label.content = "text"
              /\ paths = thumbs
              /\ 0 <= index
              /\ index < Len(paths))
  /\ [][ (dlg /\ lastOp'.op \in {"next", "prev"})
         => /\ dlg'
            /\ paths' = paths
            /\ zoom_percent' = zoom_percent
            /\ original.isNull
                 => /\ (lastOp'.op = "next" /\ index < Len(paths) - 1)
                         => index' = index + 1
                    /\ (lastOp'.op = "prev" /\ index > 0)
                         => index' = index - 1
                    /\ 0 <= index'
                    /\ index' < Len(paths)
                    /\ (index' # index
                          /\ ~QPixmapOf(paths[index' + 1]).isNull)
                         => /\ ~original'.isNull
                            /\ loaded_path' = paths[index' + 1]
                            /\ image_label'.content = "pixmap"
                            /\ target_scale' = ModeScale'
            /\ (index' # index /\ QPixmapOf(paths[index' + 1]).isNull)
                 => /\ original'.isNull
                    /\ image_label'.content = "text" ]_vars

\* C21 witness: in "mixed", next() from x.bmp, which does not decode,
\* arrived at z.ico and rendered it at Percent(210)
C21_Witness ==
  /\ Displayed
  /\ folder = "mixed"
  /\ lastOp = Op("next", 1)
  /\ index = 2
  /\ loaded_path = PathOf("mixed", <<122,46,105,99,111>>)
  /\ zoom_percent = 210
  /\ target_scale = <<210, 100>>

\* C22: no viewer exists on an empty image list.  A folder that is not a
\* directory, or holds no image file, has no thumbnail; an open request
\* while there is no thumbnail creates no viewer and changes nothing; an
\* open request with thumbnails creates the viewer on all of them, at the
\* requested index when it lies in 0 .. len - 1, at 0 when it is below,
\* at len - 1 when it is above.
C22_NoEmptyViewer ==
  /\ [] (dlg => Len(paths) > 0)
  /\ [] ((~is_dir(folder) \/ ListedFiles(folder) = {}) => thumbs = << >>)
  /\ [][ (~dlg /\ lastOp'.op = "open")
         => IF Len(thumbs) = 0
              THEN /\ ~dlg'
                   /\ UNCHANGED <<mainVars, imageViewZoom, dlgVars>>
              ELSE /\ dlg'
                   /\ paths' = thumbs
                   /\ lastOp'.arg < 0 => index' = 0
                   /\ lastOp'.arg > Len(thumbs) - 1
                        => index' = Len(thumbs) - 1
                   /\ (0 <= lastOp'.arg /\ lastOp'.arg <= Len(thumbs) - 1)
                        => index' = lastOp'.arg ]_vars

\* C22 witness: the start folder does not exist, nothing is listed, and an
\* open request has been turned down
C22_Witness ==
  /\ ~dlg
  /\ lastOp.op = "open"
  /\ ~is_dir(folder)
  /\ thumbs = << >>
  /\ paths = << >>

\* C23: whenever a viewer exists, whatever was done last (construction,
\* next() or prev(), at a boundary or not, onto a file that decodes or
\* not), the previous button is enabled exactly when index > 0 and the
\* next button exactly when index < len(paths) - 1.
C23_ButtonsFollowIndex ==
  dlg => /\ btn_prev <=> (index > 0)
         /\ btn_next <=> (index < Len(paths) - 1)

\* C23 witness: next() from the first image of "mixed" arrived at x.bmp,
\* which does not decode; it is the middle one of three and both buttons
\* are enabled
C23_Witness ==
  /\ dlg
  /\ original.isNull
  /\ image_label.content = "text"
  /\ lastOp = Op("next", 0)
  /\ index = 1
  /\ Len(paths) = 3
  /\ btn_prev
  /\ btn_next

\* C24: while the current file has not decoded, zoom_in() and zoom_out()
\* still set and store the mode.  From FitWidth or FitHeight the mode is
\* frozen at 100, so zoom_in() gives Percent(110) and zoom_out()
\* Percent(90); from Percent(p) they give p + 10 capped at ZOOM_MAX and
\* p - 10 floored at ZOOM_MIN.  The new mode is the stored setting, and the
\* image, the placeholder, the scale and the scroll bars stay as they were.
C24_ZoomWithoutImage ==
  [][ (dlg /\ original.isNull /\ lastOp'.op \in {"zoom_in", "zoom_out"})
      => /\ zoom_percent \in {0, -1}
              => zoom_percent' = IF lastOp'.op = "zoom_in" THEN 110 ELSE 90
         /\ zoom_percent > 0
              => zoom_percent' = IF lastOp'.op = "zoom_in"
                                   THEN Min(500, zoom_percent + 10)
                                   ELSE Max(10, zoom_percent - 10)
         /\ imageViewZoom' = << zoom_percent' >>
         /\ dlg'
         /\ original'.isNull
         /\ image_label' = image_label
         /\ target_scale' = target_scale
         /\ hbar' = hbar
         /\ vbar' = vbar
         /\ index' = index
         /\ paths' = paths ]_vars

\* C24 witness: zoom_out() in FitHeight on a file that did not decode left
\* Percent(90) as the mode and as the stored setting, the placeholder
\* still showing
C24_Witness ==
  /\ dlg
  /\ original.isNull
  /\ image_label.content = "text"
  /\ lastOp = Op("zoom_out", -1)
  /\ zoom_percent = 90
  /\ imageViewZoom = <<90>>

====
